---- MODULE Spec2Model ----
(***************************************************************************)
(* A model of hand_tracker.py: the HandGestureCounter class.               *)
(*                                                                         *)
(*   - count_fingers, the finger-count classifier, as an operator;         *)
(*   - the trackbar callbacks that set the two thresholds;                 *)
(*   - run(), the frame loop, as a state machine over the positions of     *)
(*     its body, with the camera, the detector and the keyboard as         *)
(*     nondeterministic inputs.                                            *)
(*                                                                         *)
(* Numbers.  Pixel coordinates are Python ints.  A threshold is the float  *)
(* value / 100.0 for an int trackbar value; it is held here as the         *)
(* fraction [num, den], and `dist < threshold` for an int dist is          *)
(* dist * den < num, which agrees with the float comparison for every      *)
(* trackbar value 0..100 and every int dist.                               *)
(* A normalised detector coordinate is held as a numerator over NormDen,   *)
(* a power of two, so that lm.x * width is exact in floating point and     *)
(* int() is truncation toward zero of numerator * width / NormDen.         *)
(***************************************************************************)
EXTENDS Integers, Sequences, FiniteSets, TLC

VARIABLES
    pc,                      \* position in run(), or in the classifier harness
    cap_opened,              \* self.cap is open (not yet released)
    windows,                 \* the HighGUI windows that exist
    thumb_index_threshold,   \* self.thumb_index_threshold, a fraction [num, den]
    index_middle_threshold,  \* self.index_middle_threshold, a fraction [num, den]
    text_position_left,      \* self.text_position_left
    text_position_right,     \* self.text_position_right
    ret,                     \* run(): ret of the last cap.read()
    frame,                   \* run(): shape of the current frame, or NoFrame
    hands_pending,           \* run(): hands of results.multi_hand_landmarks not yet visited
    lm_list,                 \* run(): lm_list of the hand being handled / the classifier's argument
    outcome,                 \* result of the last count_fingers call
    hand_side,               \* run(): hand_side of the last hand
    text_drawn,              \* the last cv2.putText call on the current frame, or NoText
    key,                     \* run(): value of the last cv2.waitKey(1)
    n_frames,                \* successful cap.read() calls so far
    n_shown,                 \* cv2.imshow calls so far
    n_polled                 \* cv2.waitKey calls so far

vars == <<pc, cap_opened, windows, thumb_index_threshold, index_middle_threshold,
          text_position_left, text_position_right, ret, frame, hands_pending,
          lm_list, outcome, hand_side, text_drawn, key, n_frames, n_shown, n_polled>>

(***************************************************************************)
(* Bounds of the model.                                                    *)
(***************************************************************************)
\* Largest pixel row of a fingertip in the classifier's input space.
MaxY == 4
\* Frames the camera delivers before the model stops reading.
MaxFrames == 2
\* Hands the detector reports in one frame.
MaxHands == 2

(***************************************************************************)
(* Program constants.                                                      *)
(***************************************************************************)
\* Number of landmarks of a hand (the detector's contract; index 20 is the last read).
NumLandmarks == 21
\* Trackbar maximum (createTrackbar's count argument).
TrackbarMax == 100
\* The divisor of the callbacks: threshold = value / 100.0.
ThresholdDen == 100
\* ord('q')
OrdQ == 113
\* Denominator of the normalised detector coordinates of the model.
NormDen == 4

WindowSliders == "Threshold Sliders"
WindowTracking == "Hand Tracking"
TextPositionLeft == <<10, 30>>
TextPositionRight == <<10, 60>>

TipIndices == {4, 8, 12, 16, 20}

(***************************************************************************)
(* Python primitives.                                                      *)
(***************************************************************************)
\* abs()
Abs(n) == IF n < 0 THEN -n ELSE n

\* int(num * scale / den) for den > 0: truncation toward zero.
TruncDiv(num, den) == IF num >= 0 THEN num \div den ELSE -((-num) \div den)

\* lm_list[i] for i >= 0 raises IndexError unless i < len(lm_list).
HasIndexUnchecked(lm, i) == TRUE
HasIndex(lm, i) == i < Len(lm)

NoLandmark == [x |-> 0, y |-> 0]
\* lm_list[i], 0-based, when it does not raise.
GetItem(lm, i) == IF i + 1 \in DOMAIN lm THEN lm[i + 1] ELSE NoLandmark

(***************************************************************************)
(* count_fingers                                                           *)
(***************************************************************************)
\* dist < threshold, for an int dist and a threshold fraction.
Below_reversed(dist, threshold) == dist * threshold.den > threshold.num
Below_or_equal(dist, threshold) == dist * threshold.den <= threshold.num
Below(dist, threshold) == dist * threshold.den < threshold.num

\* Line 109: thumb_index_dist < thumb_index_threshold and
\*           index_middle_dist < index_middle_threshold
is_closed_fist(thumb_index_dist, index_middle_dist, tit, imt) ==
    Below(thumb_index_dist, tit) /\ Below(index_middle_dist, imt)

\* Lines 116, 120, 124, 128: `if a['y'] < b['y']: finger_count += 1`.
is_above_le(a, b) == IF a.y <= b.y THEN 1 ELSE 0
is_above(a, b) == IF a.y < b.y THEN 1 ELSE 0

Returned(n) == [raised |-> FALSE, value |-> n]
IndexError == [raised |-> TRUE, value |-> -1]
NotCalled == [raised |-> FALSE, value |-> -1]

\* Lines 112-134: finger_count = 0, one increment per comparison that holds,
\* and the unconditional increment of the little finger.
count_up_little_checked(thumb_tip, index_tip, middle_tip, ring_tip, little_tip) ==
    0 + is_above(thumb_tip, index_tip)
      + is_above(index_tip, middle_tip)
      + is_above(middle_tip, ring_tip)
      + is_above(ring_tip, little_tip)
      + is_above(little_tip, ring_tip)
count_up_from_one(thumb_tip, index_tip, middle_tip, ring_tip, little_tip) ==
    1 + is_above(thumb_tip, index_tip)
      + is_above(index_tip, middle_tip)
      + is_above(middle_tip, ring_tip)
      + is_above(ring_tip, little_tip)
      + 1
count_up(thumb_tip, index_tip, middle_tip, ring_tip, little_tip) ==
    0 + is_above(thumb_tip, index_tip)
      + is_above(index_tip, middle_tip)
      + is_above(middle_tip, ring_tip)
      + is_above(ring_tip, little_tip)
      + 1

\* count_fingers(self, lm_list) with self.thumb_index_threshold = tit and
\* self.index_middle_threshold = imt.
count_fingers(lm, tit, imt) ==
    IF \E i \in TipIndices : ~HasIndex(lm, i)
    THEN IndexError
    ELSE LET thumb_tip == GetItem(lm, 4)
             index_tip == GetItem(lm, 8)
             middle_tip == GetItem(lm, 12)
             ring_tip == GetItem(lm, 16)
             little_tip == GetItem(lm, 20)
             thumb_index_dist == Abs(thumb_tip.y - index_tip.y)
             index_middle_dist == Abs(index_tip.y - middle_tip.y)
         IN  IF is_closed_fist(thumb_index_dist, index_middle_dist, tit, imt)
             THEN Returned(0)
             ELSE Returned(count_up(thumb_tip, index_tip, middle_tip, ring_tip,
                                    little_tip))

(***************************************************************************)
(* __init__ and the trackbar callbacks                                     *)
(***************************************************************************)
\* value / 100.0
threshold_of_undivided(value) == [num |-> value, den |-> 1]
threshold_of(value) == [num |-> value, den |-> ThresholdDen]

\* Lines 54-55: the default 0.1, the float that 10 / 100.0 also yields.
default_threshold == [num |-> 10, den |-> ThresholdDen]

\* Everything but the two thresholds.
others == <<pc, cap_opened, windows, text_position_left, text_position_right,
            ret, frame, hands_pending, lm_list, outcome, hand_side, text_drawn,
            key, n_frames, n_shown, n_polled>>

on_thumb_index_threshold_change(value) ==
    /\ thumb_index_threshold' = threshold_of(value)
    /\ UNCHANGED <<index_middle_threshold, others>>

on_index_middle_threshold_change(value) ==
    /\ index_middle_threshold' = threshold_of(value)
    /\ UNCHANGED <<thumb_index_threshold, others>>

\* The trackbar positions HighGUI can report: 0..count.
TrackbarValues == 0..TrackbarMax
\* The positions the frame-loop and classifier specifications try.
TrackbarSample == {0, 1, TrackbarMax}

NoFrame == [rows |-> 0, cols |-> 0]
NoText == [org |-> <<0, 0>>, side |-> "", count |-> -1]

\* The state __init__ leaves (lines 41-60), run() not yet entered.
Constructed ==
    /\ cap_opened = TRUE
    /\ windows = {WindowSliders}
    /\ thumb_index_threshold = default_threshold
    /\ index_middle_threshold = default_threshold
    /\ text_position_left = TextPositionLeft
    /\ text_position_right = TextPositionRight
    /\ ret = FALSE
    /\ frame = NoFrame
    /\ hands_pending = 0
    /\ outcome = NotCalled
    /\ hand_side = ""
    /\ text_drawn = NoText
    /\ key = -1
    /\ n_frames = 0
    /\ n_shown = 0
    /\ n_polled = 0

(***************************************************************************)
(* The detector's output and its conversion to lm_list (lines 166-171)     *)
(***************************************************************************)
\* A hand of the detector: 21 normalised landmarks, numerators over NormDen.
\* The fingertips' y are ys[i], the wrist's x is wx, everything else is fill.
MakeHand(ys, wx, fill) ==
    [k \in 1..NumLandmarks |->
        [x |-> IF k - 1 = 0 THEN wx ELSE fill,
         y |-> IF k - 1 \in TipIndices THEN ys[k - 1] ELSE fill]]

\* Lines 166-171: {'x': int(lm.x * frame.shape[1]), 'y': int(lm.y * frame.shape[0])}
to_lm_list(hand_landmarks, shape) ==
    [k \in DOMAIN hand_landmarks |->
        [x |-> TruncDiv(hand_landmarks[k].x * shape.cols, NormDen),
         y |-> TruncDiv(hand_landmarks[k].y * shape.rows, NormDen)]]

\* Line 178: "Left" if lm_list[0]['x'] < frame.shape[1] // 2 else "Right"
side_of_le(lm, shape) == IF GetItem(lm, 0).x <= shape.cols \div 2 THEN "Left" ELSE "Right"
side_of(lm, shape) == IF GetItem(lm, 0).x < shape.cols \div 2 THEN "Left" ELSE "Right"

\* Lines 181-186: the position the text is drawn at.
text_org(side, left, right) == IF side = "Left" THEN left ELSE right

(***************************************************************************)
(* run(): the frame loop (lines 143-202)                                   *)
(*                                                                         *)
(* pc: "read"     line 144, cap.read()                                     *)
(*     "process"  lines 149-160, flip, cvtColor, hands.process             *)
(*     "hand"     lines 161-171, the next hand: draw_landmarks, lm_list    *)
(*     "count"    line 174, count_fingers                                  *)
(*     "label"    line 178, hand_side                                      *)
(*     "putText"  lines 181-186, and lines 189-190 after the last hand     *)
(*     "show"     line 192, cv2.imshow                                     *)
(*     "waitKey"  line 195, cv2.waitKey(1)                                 *)
(*     "release"  line 200, cap.release(), the first line after the loop   *)
(*     "destroyAllWindows"  line 201                                       *)
(*     "destroyWindow"      line 202                                       *)
(*     "done"     run() has returned                                       *)
(*     "raised"   an exception has propagated out of run()                 *)
(***************************************************************************)
\* The frame shapes the camera of the model delivers.
CameraShapes == {[rows |-> 6, cols |-> 5], [rows |-> 4, cols |-> 8]}

\* Fingertip rows of the hands the detector of the model reports (numerators
\* over NormDen): all level, rising from thumb to little finger, and mixed.
PoseLevel == [i \in TipIndices |-> 2]
PoseRising == [i \in TipIndices |-> i \div 4 - 1]
PoseMixed == [i \in TipIndices |-> IF i = 4 THEN 3 ELSE IF i = 20 THEN 0 ELSE 2]
RunPoses == {PoseLevel, PoseRising, PoseMixed}
\* Wrist columns of those hands (numerators over NormDen).
RunWristXs == {-1, 1, 2, 3}
RunHands == {MakeHand(ys, wx, 1) : ys \in RunPoses, wx \in RunWristXs}

\* The values cv2.waitKey(1) returns in the model: no key, 'q', 'a'.
Keys == {-1, OrdQ, 97}

\* Lines 144-146: ret, frame = self.cap.read(); if not ret: break
after_read(r) == IF r THEN "process" ELSE "release"

\* Lines 195-196: if cv2.waitKey(1) == ord('q'): break
after_key_ignored(k) == "read"
after_key(k) == IF k = OrdQ THEN "release" ELSE "read"

\* Line 144.  The frame read replaces the one the text was drawn on.
read ==
    /\ pc = "read"
    /\ \/ /\ n_frames < MaxFrames
          /\ \E shape \in CameraShapes : frame' = shape
          /\ ret' = TRUE
          /\ n_frames' = n_frames + 1
       \/ /\ frame' = NoFrame
          /\ ret' = FALSE
          /\ n_frames' = n_frames
    /\ text_drawn' = NoText
    /\ pc' = after_read(ret')
    /\ UNCHANGED <<cap_opened, windows, thumb_index_threshold, index_middle_threshold,
                   text_position_left, text_position_right, hands_pending, lm_list,
                   outcome, hand_side, key, n_shown, n_polled>>

\* Lines 149-160: the detector reports n hands; with none the loop over the
\* hands and the reset of the text positions are skipped.
process ==
    /\ pc = "process"
    /\ \E n \in 0..MaxHands :
          /\ hands_pending' = n
          /\ pc' = IF n = 0 THEN "show" ELSE "hand"
    /\ UNCHANGED <<cap_opened, windows, thumb_index_threshold, index_middle_threshold,
                   text_position_left, text_position_right, ret, frame, lm_list,
                   outcome, hand_side, text_drawn, key, n_frames, n_shown, n_polled>>

\* Lines 161-171 for the next hand of results.multi_hand_landmarks: the
\* landmarks are drawn and converted to lm_list.
hand(hand_landmarks) ==
    /\ pc = "hand"
    /\ hands_pending > 0
    /\ lm_list' = to_lm_list(hand_landmarks, frame)
    /\ pc' = "count"
    /\ UNCHANGED <<cap_opened, windows, thumb_index_threshold, index_middle_threshold,
                   text_position_left, text_position_right, ret, frame, hands_pending,
                   outcome, hand_side, text_drawn, key, n_frames, n_shown, n_polled>>

\* Line 174: finger_count = self.count_fingers(lm_list); an IndexError of
\* count_fingers leaves run().
count ==
    /\ pc = "count"
    /\ outcome' = count_fingers(lm_list, thumb_index_threshold, index_middle_threshold)
    /\ pc' = IF outcome'.raised THEN "raised" ELSE "label"
    /\ UNCHANGED <<cap_opened, windows, thumb_index_threshold, index_middle_threshold,
                   text_position_left, text_position_right, ret, frame, hands_pending,
                   lm_list, hand_side, text_drawn, key, n_frames, n_shown, n_polled>>

\* Line 178: hand_side
label ==
    /\ pc = "label"
    /\ hand_side' = side_of(lm_list, frame)
    /\ pc' = "putText"
    /\ UNCHANGED <<cap_opened, windows, thumb_index_threshold, index_middle_threshold,
                   text_position_left, text_position_right, ret, frame, hands_pending,
                   lm_list, outcome, text_drawn, key, n_frames, n_shown, n_polled>>

\* Lines 181-186: cv2.putText at the position of the hand's side; then the
\* next hand, or, after the last one, lines 189-190.
putText ==
    /\ pc = "putText"
    /\ text_drawn' = [org |-> text_org(hand_side, text_position_left,
                                       text_position_right),
                      side |-> hand_side,
                      count |-> outcome.value]
    /\ hands_pending' = hands_pending - 1
    /\ IF hands_pending' = 0
       THEN /\ text_position_left' = TextPositionLeft
            /\ text_position_right' = TextPositionRight
            /\ pc' = "show"
       ELSE /\ UNCHANGED <<text_position_left, text_position_right>>
            /\ pc' = "hand"
    /\ UNCHANGED <<cap_opened, windows, thumb_index_threshold, index_middle_threshold,
                   ret, frame, lm_list, outcome, hand_side, key, n_frames, n_shown,
                   n_polled>>

\* Line 192: cv2.imshow('Hand Tracking', frame)
imshow ==
    /\ pc = "show"
    /\ windows' = windows \cup {WindowTracking}
    /\ n_shown' = n_shown + 1
    /\ pc' = "waitKey"
    /\ UNCHANGED <<cap_opened, thumb_index_threshold, index_middle_threshold,
                   text_position_left, text_position_right, ret, frame, hands_pending,
                   lm_list, outcome, hand_side, text_drawn, key, n_frames, n_polled>>

\* Lines 195-196: cv2.waitKey(1) returns k.
waitKey(k) ==
    /\ pc = "waitKey"
    /\ key' = k
    /\ n_polled' = n_polled + 1
    /\ pc' = after_key(k)
    /\ UNCHANGED <<cap_opened, windows, thumb_index_threshold, index_middle_threshold,
                   text_position_left, text_position_right, ret, frame, hands_pending,
                   lm_list, outcome, hand_side, text_drawn, n_frames, n_shown>>

\* HighGUI runs the trackbar callbacks from its event loop, which run()
\* enters in cv2.waitKey (line 195).
slider_moved(value) ==
    /\ pc = "waitKey"
    /\ WindowSliders \in windows
    /\ \/ on_thumb_index_threshold_change(value)
       \/ on_index_middle_threshold_change(value)

\* Line 200: self.cap.release()
release ==
    /\ pc = "release"
    /\ cap_opened' = FALSE
    /\ pc' = "destroyAllWindows"
    /\ UNCHANGED <<windows, thumb_index_threshold, index_middle_threshold,
                   text_position_left, text_position_right, ret, frame, hands_pending,
                   lm_list, outcome, hand_side, text_drawn, key, n_frames, n_shown,
                   n_polled>>

\* Line 201: cv2.destroyAllWindows()
destroyAllWindows ==
    /\ pc = "destroyAllWindows"
    /\ windows' = {}
    /\ pc' = "destroyWindow"
    /\ UNCHANGED <<cap_opened, thumb_index_threshold, index_middle_threshold,
                   text_position_left, text_position_right, ret, frame, hands_pending,
                   lm_list, outcome, hand_side, text_drawn, key, n_frames, n_shown,
                   n_polled>>

\* Line 202: cv2.destroyWindow("Threshold Sliders"), and run() returns.
destroyWindow ==
    /\ pc = "destroyWindow"
    /\ windows' = windows \ {WindowSliders}
    /\ pc' = "done"
    /\ UNCHANGED <<cap_opened, thumb_index_threshold, index_middle_threshold,
                   text_position_left, text_position_right, ret, frame, hands_pending,
                   lm_list, outcome, hand_side, text_drawn, key, n_frames, n_shown,
                   n_polled>>

\* The positions of run() at which a statement has yet to be executed.
RunPositions == {"read", "process", "hand", "count", "label", "putText", "show",
                 "waitKey", "release", "destroyAllWindows", "destroyWindow"}

\* A call made by run() raises, or an interrupt arrives between two of its
\* statements (KeyboardInterrupt, cv2.error of cvtColor, putText, imshow or
\* destroyWindow, an error of hands.process): run() has no try, so the
\* exception leaves it with the state as the statements executed so far
\* have made it; what remains of lines 200-202 is not executed.
raise_in_run ==
    /\ pc \in RunPositions
    /\ pc' = "raised"
    /\ UNCHANGED <<cap_opened, windows, thumb_index_threshold, index_middle_threshold,
                   text_position_left, text_position_right, ret, frame, hands_pending,
                   lm_list, outcome, hand_side, text_drawn, key, n_frames, n_shown,
                   n_polled>>

Init ==
    /\ Constructed
    /\ pc = "read"
    /\ lm_list = <<>>

Next ==
    \/ read
    \/ process
    \/ \E h \in RunHands : hand(h)
    \/ count
    \/ label
    \/ putText
    \/ imshow
    \/ \E k \in Keys : waitKey(k)
    \/ \E value \in TrackbarSample : slider_moved(value)
    \/ release
    \/ destroyAllWindows
    \/ destroyWindow
    \/ raise_in_run

Spec == Init /\ [][Next]_vars

(***************************************************************************)
(* count_fingers called on its own: the argument is drawn in the initial   *)
(* state, the thresholds are whatever the trackbars have set, and one call *)
(* is made.  pc: "idle" before the call, "called" after it.                *)
(***************************************************************************)
call_count_fingers ==
    /\ pc = "idle"
    /\ outcome' = count_fingers(lm_list, thumb_index_threshold, index_middle_threshold)
    /\ pc' = "called"
    /\ UNCHANGED <<cap_opened, windows, thumb_index_threshold, index_middle_threshold,
                   text_position_left, text_position_right, ret, frame, hands_pending,
                   lm_list, hand_side, text_drawn, key, n_frames, n_shown, n_polled>>

trackbar_moved(value) ==
    /\ pc = "idle"
    /\ \/ on_thumb_index_threshold_change(value)
       \/ on_index_middle_threshold_change(value)

\* Values of the landmarks the classifier does not read, and of every x.
Fills == {-3, 9}
\* Lists of 21 pixel landmarks: every combination of fingertip rows 0..MaxY.
FullLists == {MakeHand(ys, fill, fill) : ys \in [TipIndices -> 0..MaxY], fill \in Fills}
\* Lists of fewer than 21 landmarks.
ShortLists == {SubSeq(MakeHand(ys, 0, 0), 1, n) :
                   ys \in [TipIndices -> {0, 1}], n \in 0..(NumLandmarks - 1)}

InitCount ==
    /\ Constructed
    /\ pc = "idle"
    /\ lm_list \in FullLists \cup ShortLists

NextCount ==
    \/ \E value \in TrackbarSample : trackbar_moved(value)
    \/ call_count_fingers

SpecCount == InitCount /\ [][NextCount]_vars

(***************************************************************************)
(* The same, with every trackbar position and with arguments that come     *)
(* from the conversion of lines 166-171.                                   *)
(***************************************************************************)
\* Hands whose thumb, index and middle fingertips are on two neighbouring rows.
NearPoses == {[i \in TipIndices |-> IF i = 4 THEN a ELSE IF i = 8 THEN b
                                    ELSE IF i = 12 THEN c ELSE 2] :
                  a \in {2, 3}, b \in {2, 3}, c \in {2, 3}}
NearShape == [rows |-> 6, cols |-> 5]

InitSliders ==
    /\ Constructed
    /\ pc = "idle"
    /\ lm_list \in {to_lm_list(MakeHand(ys, 1, 1), NearShape) : ys \in NearPoses}

NextSliders ==
    \/ \E value \in TrackbarValues : trackbar_moved(value)
    \/ call_count_fingers

SpecSliders == InitSliders /\ [][NextSliders]_vars

(***************************************************************************)
(* Properties                                                              *)
(***************************************************************************)
\* The rows of the five fingertips of the classifier's argument.
Y(i) == GetItem(lm_list, i).y
WellFormed == Len(lm_list) = NumLandmarks
Called == pc = "called"
Indicator(b) == IF b THEN 1 ELSE 0

\* The fist condition of the specification, for the argument and the
\* thresholds of the state: |y4 - y8| < t1 and |y8 - y12| < t2.
FistCondition ==
    /\ Abs(Y(4) - Y(8)) * thumb_index_threshold.den < thumb_index_threshold.num
    /\ Abs(Y(8) - Y(12)) * index_middle_threshold.den < index_middle_threshold.num

\* C1: for a list of 21 landmarks with integer coordinates and any threshold
\* pair, count_fingers returns an integer in 0..5.
C1_CountInRange ==
    (Called /\ WellFormed) => (~outcome.raised /\ outcome.value \in 0..5)

C1_Witness ==
    Called /\ WellFormed /\ outcome = Returned(5) /\ thumb_index_threshold.num = 0

\* C2: count_fingers returns 0 when |y4 - y8| < t1 and |y8 - y12| < t2, and
\* otherwise 1 + [y4 < y8] + [y8 < y12] + [y12 < y16] + [y16 < y20].
C2_ExactCount ==
    (Called /\ WellFormed) =>
        outcome = Returned(IF FistCondition THEN 0
                           ELSE 1 + Indicator(Y(4) < Y(8)) + Indicator(Y(8) < Y(12))
                                  + Indicator(Y(12) < Y(16)) + Indicator(Y(16) < Y(20)))

\* Equal rows outside the fist case: only the little finger is counted.
C2_Witness ==
    /\ Called /\ WellFormed /\ ~FistCondition
    /\ Y(4) = Y(8) /\ Y(8) = Y(12) /\ Y(12) = Y(16) /\ Y(16) = Y(20)
    /\ outcome = Returned(1)

\* C3: when y4 < y8 < y12 < y16 < y20, count_fingers returns 5, whatever the
\* thresholds the trackbars have set.
C3_RisingIsFive ==
    (Called /\ WellFormed /\ Y(4) < Y(8) /\ Y(8) < Y(12) /\ Y(12) < Y(16) /\ Y(16) < Y(20))
        => outcome = Returned(5)

\* Rising by one row per finger, with both thresholds at their maximum 1.0.
C3_Witness ==
    /\ Called /\ WellFormed
    /\ Y(8) = Y(4) + 1 /\ Y(12) = Y(8) + 1 /\ Y(16) = Y(12) + 1 /\ Y(20) = Y(16) + 1
    /\ thumb_index_threshold.num = TrackbarMax
    /\ index_middle_threshold.num = TrackbarMax
    /\ outcome = Returned(5)

\* C4: when the five fingertip rows are equal and both thresholds are
\* positive, count_fingers returns 0 whatever the other landmarks and the
\* x-coordinates are.
C4_LevelIsFist ==
    (/\ Called /\ WellFormed
     /\ \A i \in TipIndices : Y(i) = Y(4)
     /\ thumb_index_threshold.num > 0
     /\ index_middle_threshold.num > 0)
        => outcome = Returned(0)

\* Level fingertips away from the other landmarks, smallest positive thresholds.
C4_Witness ==
    /\ Called /\ WellFormed
    /\ \A i \in TipIndices : Y(i) = Y(4)
    /\ GetItem(lm_list, 0).y # Y(4) /\ GetItem(lm_list, 4).x # Y(4)
    /\ thumb_index_threshold.num = 1
    /\ index_middle_threshold.num = 1
    /\ outcome = Returned(0)

\* The landmarks that replace landmark 20 in C5.
Perturbations == [x : Fills \cup {0}, y : (-1)..(MaxY + 1)]
WithLandmark20(p) == [lm_list EXCEPT ![NumLandmarks] = p]
CountWith20(p) ==
    count_fingers(WithLandmark20(p), thumb_index_threshold, index_middle_threshold)

\* C5 as stated: outside the fist case the count is the same for any two
\* lists that differ only in landmark 20.
C5_Landmark20Irrelevant ==
    (Called /\ WellFormed /\ ~FistCondition) =>
        \A p \in Perturbations : CountWith20(p) = outcome

\* C5 as amended: outside the fist case the count is the same for two lists
\* that differ only in landmark 20 and agree on whether y16 < y20.
C5_Landmark20UpToRing ==
    (Called /\ WellFormed /\ ~FistCondition) =>
        \A p \in Perturbations :
            ((Y(16) < p.y) <=> (Y(16) < Y(20))) => CountWith20(p) = outcome

\* The ring and little fingertips on one row, outside the fist case: moving
\* landmark 20 up (a smaller y) leaves y16 < y20 false.
C5_Witness ==
    /\ Called /\ WellFormed /\ ~FistCondition
    /\ Y(16) = Y(20) /\ Y(16) > 0
    /\ outcome = Returned(3)

\* C7: with fewer than 21 landmarks count_fingers raises (IndexError) and
\* returns no count, whatever the landmarks and the thresholds are.
C7_ShortListRaises ==
    (Called /\ Len(lm_list) < NumLandmarks) => outcome = IndexError

\* Twenty landmarks: only lm_list[20] is missing.
C7_Witness ==
    Called /\ Len(lm_list) = NumLandmarks - 1 /\ outcome.raised

\* The wrist column of the hand of lm_list.
WristX == GetItem(lm_list, 0).x
TextDrawn == text_drawn # NoText
\* The hand of lm_list has been labelled and its text not yet drawn.
Labelled == pc = "putText"
\* The text on the frame is that of the hand of lm_list.
TextOfHand == TextDrawn /\ pc \in {"hand", "show", "waitKey"}

\* C6 as stated: the hand is "Left" when its wrist x is less than half the
\* frame width and "Right" otherwise, and its text is drawn at the left-hand
\* position exactly when the label is "Left".
C6_LeftOfHalfWidth ==
    /\ Labelled =>
          hand_side = (IF 2 * WristX < frame.cols THEN "Left" ELSE "Right")
    /\ TextOfHand =>
          text_drawn.side = (IF 2 * WristX < frame.cols THEN "Left" ELSE "Right")
    /\ TextDrawn =>
          ((text_drawn.org = TextPositionLeft) <=> (text_drawn.side = "Left"))

\* C6 as amended: the hand is "Left" when its wrist x is less than the
\* integer midpoint floor(width / 2) and "Right" otherwise, a wrist at that
\* midpoint being "Right"; the text is drawn at the left-hand position exactly
\* when the label is "Left", and at the right-hand position otherwise.
C6_LeftOfIntegerMidpoint ==
    /\ Labelled =>
          hand_side = (IF WristX < frame.cols \div 2 THEN "Left" ELSE "Right")
    /\ TextOfHand =>
          /\ text_drawn.side = hand_side
          /\ text_drawn.side = (IF WristX < frame.cols \div 2 THEN "Left" ELSE "Right")
    /\ TextDrawn =>
          /\ (text_drawn.org = TextPositionLeft) <=> (text_drawn.side = "Left")
          /\ (text_drawn.org = TextPositionRight) <=> (text_drawn.side = "Right")

\* A wrist exactly at the integer midpoint of an even-width frame, labelled
\* "Right" and drawn at the right-hand position.
C6_Witness ==
    /\ TextOfHand
    /\ frame.cols = 8 /\ WristX = 4
    /\ hand_side = "Right"
    /\ text_drawn.side = "Right" /\ text_drawn.org = TextPositionRight

\* C8: however the frame loop stops (a failed read, the 'q' key, a failure
\* raised while a frame is processed), run() ends with the capture released
\* and the windows destroyed.
C8_ReleasedOnEveryExit ==
    pc \in {"done", "raised"} => (~cap_opened /\ windows = {})

\* cap.read() returns (it does not raise).
ReadReturns == pc = "read" /\ pc' # "raised"

\* One step of run(), as C9 describes it.
C9_Step ==
    \* a failed read leaves the loop at once: no detection, display or poll
    /\ (ReadReturns /\ ~ret') =>
           /\ pc' = "release"
           /\ n_shown' = n_shown /\ n_polled' = n_polled
           /\ outcome' = outcome /\ hands_pending' = hands_pending
    /\ (ReadReturns /\ ret') => pc' = "process"
    \* the statements after the loop are reached only by a failed read or by
    \* the key 'q'
    /\ (pc # "release" /\ pc' = "release") =>
           \/ pc = "read" /\ ~ret'
           \/ pc = "waitKey" /\ key' = OrdQ
    \* the key polled decides between leaving and the next read
    /\ (pc = "waitKey" /\ n_polled' # n_polled) =>
           pc' = (IF key' = OrdQ THEN "release" ELSE "read")
    \* at the head of the loop and after it, every successful read has had
    \* exactly one display and one key poll
    /\ pc' \in {"read", "release"} => (n_shown' = n_frames' /\ n_polled' = n_frames')
    /\ pc' = "waitKey" => (n_shown' = n_frames' /\ n_polled' = n_frames' - 1)

\* C9: the frame loop is left (control reaches the statements after it)
\* exactly when a read yields no frame or the key polled is 'q'; a failed read stops the loop in the same iteration without
\* detection, display or key poll; a successful read is followed by exactly
\* one display and one key poll, and any other key leads to the next read.
C9_LoopExits == [][C9_Step]_vars

\* Two frames read and shown, another key after the first, 'q' after the second.
C9_Witness ==
    /\ pc = "done" /\ ret /\ key = OrdQ
    /\ n_frames = 2 /\ n_shown = 2 /\ n_polled = 2

\* C10: with pixel (integer) coordinates and thresholds k/100, k in 0..100,
\* count_fingers returns 0 exactly when y4 = y8 = y12 and both thresholds are
\* greater than 0.
C10_FistOnlyOnEqualRows ==
    /\ thumb_index_threshold.den = ThresholdDen
    /\ thumb_index_threshold.num \in 0..TrackbarMax
    /\ index_middle_threshold.den = ThresholdDen
    /\ index_middle_threshold.num \in 0..TrackbarMax
    /\ Called =>
          ((outcome = Returned(0)) <=>
              (/\ Y(4) = Y(8) /\ Y(8) = Y(12)
               /\ thumb_index_threshold.num > 0
               /\ index_middle_threshold.num > 0))

\* Rows one pixel apart with both trackbars at their maximum: no fist.
C10_Witness ==
    /\ Called
    /\ Abs(Y(4) - Y(8)) = 1 /\ Abs(Y(8) - Y(12)) = 1
    /\ thumb_index_threshold.num = TrackbarMax
    /\ index_middle_threshold.num = TrackbarMax
    /\ outcome.value > 0

====
